---- MODULE Spec2Model ----
(***************************************************************************)
(* A model of teamhood-mcp (src/src/index.ts): an MCP server that turns a  *)
(* named tool invocation into HTTP requests against the Teamhood REST API. *)
(*                                                                         *)
(* JavaScript values are tagged records, so that values of different       *)
(* types can be compared.  Text that crosses the wire (request bodies,     *)
(* response bodies) is a sequence of lexical tokens; Text(toks) is the     *)
(* character string the tokens spell.                                      *)
(***************************************************************************)
EXTENDS Integers, Sequences, FiniteSets, TLC

\* ------------------------------------------------------------------------
\* JavaScript values
\* ------------------------------------------------------------------------
Undef == [t |-> "undefined"]
Null == [t |-> "null"]
Str(s) == [t |-> "string", s |-> s]
Num(n) == [t |-> "number", n |-> n]
Bool(b) == [t |-> "boolean", b |-> b]
Arr(a) == [t |-> "array", a |-> a]
\* An object is its members in insertion order, each [k |-> key, v |-> value].
Obj(o) == [t |-> "object", o |-> o]
Member(k, v) == [k |-> k, v |-> v]

\* ToBoolean, as used by `if (x)`, `x || y`, `!x`.
Truthy(v) ==
    CASE v.t = "undefined" -> FALSE
      [] v.t = "null" -> FALSE
      [] v.t = "string" -> v.s # ""
      [] v.t = "number" -> v.n # 0
      [] v.t = "boolean" -> v.b
      [] OTHER -> TRUE

\* x ?? y
Nullish(v) == v.t \in {"undefined", "null"}

RECURSIVE JoinComma(_)
\* String(v), as applied by a template literal and by URLSearchParams.append.
RECURSIVE ToStr(_)
ToStr(v) ==
    CASE v.t = "undefined" -> "undefined"
      [] v.t = "null" -> "null"
      [] v.t = "string" -> v.s
      [] v.t = "number" -> ToString(v.n)
      [] v.t = "boolean" -> (IF v.b THEN "true" ELSE "false")
      [] v.t = "array" -> JoinComma(v.a)
      [] OTHER -> "[object Object]"

\* Array.prototype.join(","): null and undefined elements join as "".
JoinComma(a) ==
    IF a = <<>> THEN ""
    ELSE LET h == IF Nullish(Head(a)) THEN "" ELSE ToStr(Head(a))
         IN IF Len(a) = 1 THEN h ELSE h \o "," \o JoinComma(Tail(a))

\* obj[key]: the value of the last member named key, undefined when none.
RECURSIVE Lookup(_, _)
Lookup(o, key) ==
    IF o = <<>> THEN Undef
    ELSE IF o[Len(o)].k = key THEN o[Len(o)].v
    ELSE Lookup(SubSeq(o, 1, Len(o) - 1), key)

Get(v, key) == IF v.t = "object" THEN Lookup(v.o, key) ELSE Undef

HasKey(v, key) == v.t = "object" /\ \E i \in 1..Len(v.o) : v.o[i].k = key

\* ------------------------------------------------------------------------
\* Wire text as tokens
\* ------------------------------------------------------------------------
Punct(s) == [k |-> "punct", s |-> s]
StrTok(s) == [k |-> "string", s |-> s]
NumTok(n) == [k |-> "number", n |-> n]
LitTok(s) == [k |-> "literal", s |-> s]
Space(s) == [k |-> "space", s |-> s]
\* Text that is not JSON (an error page, a plain message).
RawTok(s) == [k |-> "raw", s |-> s]

Lexeme(tok) ==
    CASE tok.k = "string" -> "\"" \o tok.s \o "\""
      [] tok.k = "number" -> ToString(tok.n)
      [] OTHER -> tok.s

RECURSIVE Text(_)
Text(toks) == IF toks = <<>> THEN "" ELSE Lexeme(Head(toks)) \o Text(Tail(toks))

\* ------------------------------------------------------------------------
\* JSON.stringify(value, null, gap) and JSON.parse(text)
\* ------------------------------------------------------------------------
\* The line break and indentation written before an element when gap # "".
Sep(ind, gap) == IF gap = "" THEN <<>> ELSE <<Space("\n" \o ind)>>

Defined(m) == m.v.t # "undefined"

RECURSIVE Ser(_, _, _)
RECURSIVE SerElems(_, _, _)
RECURSIVE SerMembers(_, _, _)
\* SerializeJSONProperty: cur is the current indentation.  A member whose
\* value is undefined is left out; an undefined array element is null.
Ser(v, cur, gap) ==
    CASE v.t = "string" -> <<StrTok(v.s)>>
      [] v.t = "number" -> <<NumTok(v.n)>>
      [] v.t = "boolean" -> <<LitTok(IF v.b THEN "true" ELSE "false")>>
      [] v.t = "array" ->
           IF v.a = <<>> THEN <<Punct("["), Punct("]")>>
           ELSE <<Punct("[")>> \o Sep(cur \o gap, gap)
                \o SerElems(v.a, cur \o gap, gap)
                \o Sep(cur, gap) \o <<Punct("]")>>
      [] v.t = "object" ->
           LET kept == SelectSeq(v.o, Defined)
           IN IF kept = <<>> THEN <<Punct("{"), Punct("}")>>
              ELSE <<Punct("{")>> \o Sep(cur \o gap, gap)
                   \o SerMembers(kept, cur \o gap, gap)
                   \o Sep(cur, gap) \o <<Punct("}")>>
      [] OTHER -> <<LitTok("null")>>

SerElems(a, ind, gap) ==
    Ser(Head(a), ind, gap)
    \o (IF Len(a) = 1 THEN <<>>
        ELSE <<Punct(",")>> \o Sep(ind, gap) \o SerElems(Tail(a), ind, gap))

SerMembers(o, ind, gap) ==
    <<StrTok(Head(o).k), Punct(":")>>
    \o (IF gap = "" THEN <<>> ELSE <<Space(" ")>>)
    \o Ser(Head(o).v, ind, gap)
    \o (IF Len(o) = 1 THEN <<>>
        ELSE <<Punct(",")>> \o Sep(ind, gap) \o SerMembers(Tail(o), ind, gap))

\* JSON.stringify(value): the compact wire form.
JSONStringify(v) == Ser(v, "", "")

\* Mutant of JSONStringifyPretty: the indentation argument is forgotten.
JSONStringifyPretty_Compact(v) == Ser(v, "", "")

\* JSON.stringify(value, null, 2)
JSONStringifyPretty(v) == Ser(v, "", "  ")

NotSpace(tok) == tok.k # "space"

ParseFail == [ok |-> FALSE]

IsPunct(toks, i, s) == i <= Len(toks) /\ toks[i].k = "punct" /\ toks[i].s = s

RECURSIVE ParseValue(_, _)
RECURSIVE ParseElems(_, _, _)
RECURSIVE ParseMembers(_, _, _)
\* The JSON value that starts at token i: [ok, v, i] with i the index after it.
ParseValue(toks, i) ==
    IF i > Len(toks) THEN ParseFail
    ELSE LET tok == toks[i]
         IN CASE tok.k = "string" -> [ok |-> TRUE, v |-> Str(tok.s), i |-> i + 1]
              [] tok.k = "number" -> [ok |-> TRUE, v |-> Num(tok.n), i |-> i + 1]
              [] tok.k = "literal" ->
                   [ok |-> TRUE, i |-> i + 1,
                    v |-> IF tok.s = "null" THEN Null ELSE Bool(tok.s = "true")]
              [] IsPunct(toks, i, "[") ->
                   IF IsPunct(toks, i + 1, "]")
                   THEN [ok |-> TRUE, v |-> Arr(<<>>), i |-> i + 2]
                   ELSE ParseElems(toks, i + 1, <<>>)
              [] IsPunct(toks, i, "{") ->
                   IF IsPunct(toks, i + 1, "}")
                   THEN [ok |-> TRUE, v |-> Obj(<<>>), i |-> i + 2]
                   ELSE ParseMembers(toks, i + 1, <<>>)
              [] OTHER -> ParseFail

ParseElems(toks, i, acc) ==
    LET r == ParseValue(toks, i)
    IN IF ~r.ok THEN ParseFail
       ELSE IF IsPunct(toks, r.i, ",")
            THEN ParseElems(toks, r.i + 1, Append(acc, r.v))
       ELSE IF IsPunct(toks, r.i, "]")
            THEN [ok |-> TRUE, v |-> Arr(Append(acc, r.v)), i |-> r.i + 1]
       ELSE ParseFail

ParseMembers(toks, i, acc) ==
    IF ~(i <= Len(toks) /\ toks[i].k = "string" /\ IsPunct(toks, i + 1, ":"))
    THEN ParseFail
    ELSE LET r == ParseValue(toks, i + 2)
         IN IF ~r.ok THEN ParseFail
            ELSE LET next == Append(acc, Member(toks[i].s, r.v))
                 IN IF IsPunct(toks, r.i, ",")
                    THEN ParseMembers(toks, r.i + 1, next)
                    ELSE IF IsPunct(toks, r.i, "}")
                         THEN [ok |-> TRUE, v |-> Obj(next), i |-> r.i + 1]
                    ELSE ParseFail

\* JSON.parse(text): [ok |-> TRUE, v |-> value], or [ok |-> FALSE] for the
\* SyntaxError it throws.
JSONParse(toks) ==
    LET s == SelectSeq(toks, NotSpace)
        r == ParseValue(s, 1)
    IN IF r.ok /\ r.i = Len(s) + 1 THEN [ok |-> TRUE, v |-> r.v] ELSE ParseFail

\* ------------------------------------------------------------------------
\* The tool catalog
\* ------------------------------------------------------------------------
\* One property of an inputSchema: its name and its declared type.
P(name, type) == [name |-> name, type |-> type]

\* One descriptor: the tool's name, the properties of its inputSchema in
\* declaration order, and the names its inputSchema lists as required.
Tool(name, properties, required) ==
    [name |-> name, properties |-> properties, required |-> required]

ObjectArray == "array<object>"

tools ==
    << Tool("list_workspaces", <<>>, {}),
       Tool("get_workspace", <<P("workspaceId", "string")>>, {"workspaceId"}),
       Tool("create_workspace",
            <<P("title", "string"), P("displayId", "string"), P("icon", "string"),
              P("color", "number"), P("templateId", "string"), P("ownerId", "string")>>,
            {"title", "displayId", "icon", "templateId", "ownerId"}),
       Tool("add_workspace_member",
            <<P("workspaceId", "string"), P("userId", "string")>>,
            {"workspaceId", "userId"}),
       Tool("list_boards", <<P("workspaceId", "string")>>, {"workspaceId"}),
       Tool("get_board",
            <<P("workspaceId", "string"), P("boardId", "string")>>,
            {"workspaceId", "boardId"}),
       Tool("create_board",
            <<P("workspaceId", "string"), P("title", "string"),
              P("displayId", "string"), P("templateId", "string"),
              P("viewType", "string")>>,
            {"workspaceId", "title", "displayId", "templateId", "viewType"}),
       Tool("list_rows", <<P("boardId", "string")>>, {"boardId"}),
       Tool("list_statuses", <<P("boardId", "string")>>, {"boardId"}),
       Tool("create_row",
            <<P("boardId", "string"), P("title", "string"),
              P("startDate", "string"), P("endDate", "string")>>,
            {"boardId", "title"}),
       Tool("list_items",
            <<P("workspaceId", "string"), P("boardId", "string"),
              P("statusId", "string"), P("rowId", "string"),
              P("assignedUserId", "string"), P("ownerId", "string"),
              P("parentId", "string"), P("completed", "boolean"),
              P("tags", "array<string>"), P("customFields", "array<string>"),
              P("createdSince", "string"), P("modifiedSince", "string"),
              P("completedSince", "string"), P("includeChildItems", "boolean"),
              P("skip", "number"), P("take", "number")>>,
            {}),
       Tool("get_item", <<P("itemId", "string")>>, {"itemId"}),
       Tool("create_item",
            <<P("workspaceId", "string"), P("boardId", "string"),
              P("statusId", "string"), P("title", "string"),
              P("description", "string"), P("rowId", "string"),
              P("assigneeId", "string"), P("startDate", "string"),
              P("dueDate", "string"), P("color", "number"),
              P("tags", "array<string>"), P("customFields", ObjectArray),
              P("blocking", ObjectArray), P("waiting", ObjectArray)>>,
            {"workspaceId", "boardId", "statusId", "title"}),
       Tool("update_item",
            <<P("itemId", "string"), P("title", "string"),
              P("description", "string"), P("statusId", "string"),
              P("rowId", "string"), P("boardId", "string"),
              P("assigneeId", "string"), P("startDate", "string"),
              P("dueDate", "string"), P("color", "number"),
              P("tags", "array<string>"), P("customFields", ObjectArray),
              P("blocking", ObjectArray), P("waiting", ObjectArray),
              P("archived", "boolean"), P("milestone", "boolean"),
              P("progress", "number"), P("parentId", "string")>>,
            {"itemId"}),
       Tool("delete_item", <<P("itemId", "string")>>, {"itemId"}),
       Tool("move_item",
            <<P("itemId", "string"), P("targetBoardId", "string"),
              P("targetStatusId", "string"), P("targetRowId", "string")>>,
            {"itemId"}),
       Tool("archive_item",
            <<P("itemId", "string"), P("archived", "boolean")>>, {"itemId"}),
       Tool("list_attachments", <<P("itemId", "string")>>, {"itemId"}),
       Tool("get_attachment", <<P("attachmentId", "string")>>, {"attachmentId"}),
       Tool("download_attachment", <<P("attachmentId", "string")>>, {"attachmentId"}),
       Tool("update_attachment",
            <<P("attachmentId", "string"), P("name", "string")>>,
            {"attachmentId", "name"}),
       Tool("delete_attachment", <<P("attachmentId", "string")>>, {"attachmentId"}),
       Tool("upload_attachment",
            <<P("itemId", "string"), P("name", "string"), P("content", "string")>>,
            {"itemId", "name", "content"}),
       Tool("list_users", <<>>, {}),
       Tool("get_time_logs",
            <<P("workspaceId", "string"), P("startDate", "string"),
              P("endDate", "string"), P("boardIds", "array<string>"),
              P("rowIds", "array<string>"), P("userIds", "array<string>"),
              P("tags", "array<string>")>>,
            {"workspaceId", "startDate", "endDate"}),
       Tool("list_workspace_templates", <<>>, {}),
       Tool("list_board_templates", <<>>, {}),
       Tool("list_activities",
            <<P("boardId", "string"), P("startDate", "string"),
              P("endDate", "string"), P("offset", "number"), P("limit", "number")>>,
            {"boardId", "startDate", "endDate"}),
       Tool("list_system_logs",
            <<P("fromDate", "string"), P("toDate", "string"),
              P("skip", "number"), P("take", "number")>>,
            {"fromDate", "toDate"}) >>

\* The names the catalog advertises.
CatalogNames == {tools[i].name : i \in 1..Len(tools)}

\* The descriptor of a catalog tool.
Descriptor(name) == tools[CHOOSE i \in 1..Len(tools) : tools[i].name = name]

PropertyNames(d) == {d.properties[i].name : i \in 1..Len(d.properties)}

TypeOf(d, arg) ==
    d.properties[CHOOSE i \in 1..Len(d.properties) : d.properties[i].name = arg].type

\* ------------------------------------------------------------------------
\* State
\* ------------------------------------------------------------------------
VARIABLES
    process,    \* "starting" until main has connected, then "ready"; "exited"
    API_KEY,    \* secrets.apiKey, resolved when the module is loaded
    BASE_URL,   \* secrets.baseUrl, resolved when the module is loaded
    calls       \* the protocol requests being handled, one per slot

vars == <<process, API_KEY, BASE_URL, calls>>

\* ------------------------------------------------------------------------
\* Secrets
\* ------------------------------------------------------------------------
DefaultBaseUrl == "https://api-lafermedutemple.teamhood.com/api/v1"

\* a || b on strings: an unset or empty string is falsy.
OrElse(a, b) == IF a # "" THEN a ELSE b

\* env.secretsFile is "missing", "undecryptable" (sops fails) or "decrypted";
\* fileKey/fileUrl are the values the decrypted file gives, envKey/envUrl the
\* process environment's; "" stands for a name that is not set.
loadSecrets(env) ==
    IF env.secretsFile = "decrypted"
    THEN [apiKey |-> OrElse(env.fileKey, OrElse(env.envKey, "")),
          baseUrl |-> OrElse(env.fileUrl, OrElse(env.envUrl, DefaultBaseUrl))]
    ELSE [apiKey |-> OrElse(env.envKey, ""),
          baseUrl |-> OrElse(env.envUrl, DefaultBaseUrl)]

\* ------------------------------------------------------------------------
\* The transport client
\* ------------------------------------------------------------------------
NoBody == [kind |-> "none"]
JsonBody(toks) == [kind |-> "json", text |-> toks]
MultipartBody(parts) == [kind |-> "multipart", parts |-> parts]

\* What a handler does up to its next await, or when it ends.
Fetch(request, via) == [kind |-> "fetch", request |-> request, via |-> via]
Throw(message) == [kind |-> "throw", message |-> message]
Return(value) == [kind |-> "return", value |-> value]

\* What fetch settles with.
Responded(status, body) == [kind |-> "response", status |-> status, body |-> body]
Rejected(message) == [kind |-> "reject", message |-> message]

\* Response.ok
ResponseOk(status) == status >= 200 /\ status <= 299

\* Mutant of apiHeaders: the key is sent as a bearer token.
apiHeaders_Bearer ==
    [h \in {"Authorization", "Content-Type"} |->
        IF h = "Authorization" THEN "Bearer " \o API_KEY ELSE "application/json"]

\* The headers apiRequest builds.
apiHeaders ==
    [h \in {"Authorization", "Content-Type"} |->
        IF h = "Authorization" THEN API_KEY ELSE "application/json"]

\* Mutant of apiRequest: the method argument is dropped and every request
\* goes out with the default, GET.
apiRequest_AlwaysGet(endpoint, method, body) ==
    Fetch([url |-> BASE_URL \o endpoint,
           method |-> "GET",
           headers |-> apiHeaders,
           body |-> NoBody],
          "apiRequest")

\* Mutant of apiRequest: a body is serialized whatever the method.
apiRequest_BodyAnyMethod(endpoint, method, body) ==
    Fetch([url |-> BASE_URL \o endpoint,
           method |-> method,
           headers |-> apiHeaders,
           body |-> IF Truthy(body) THEN JsonBody(JSONStringify(body)) ELSE NoBody],
          "apiRequest")

\* apiRequest up to `await fetch(url, options)`; an omitted body is Undef.
apiRequest(endpoint, method, body) ==
    Fetch([url |-> BASE_URL \o endpoint,
           method |-> method,
           headers |-> apiHeaders,
           body |-> IF Truthy(body) /\ method \in {"POST", "PUT"}
                    THEN JsonBody(JSONStringify(body))
                    ELSE NoBody],
          "apiRequest")

\* The message of the SyntaxError JSON.parse throws (its wording is the
\* engine's).
SyntaxErrorMessage == "Unexpected token in JSON"

\* Mutant of apiResponse: the error reports the status without the
\* response text.
apiResponse_StatusOnly(answer) ==
    IF answer.kind = "reject" THEN Throw(answer.message)
    ELSE IF ~ResponseOk(answer.status)
    THEN Throw("API Error " \o ToString(answer.status))
    ELSE IF Text(answer.body) = "" THEN Return(Obj(<<>>))
    ELSE LET r == JSONParse(answer.body)
         IN IF r.ok THEN Return(r.v) ELSE Throw(SyntaxErrorMessage)

\* apiRequest from the settlement of fetch on.
apiResponse(answer) ==
    IF answer.kind = "reject" THEN Throw(answer.message)
    ELSE IF ~ResponseOk(answer.status)
    THEN Throw("API Error " \o ToString(answer.status) \o ": " \o Text(answer.body))
    ELSE IF Text(answer.body) = "" THEN Return(Obj(<<>>))
    ELSE LET r == JSONParse(answer.body)
         IN IF r.ok THEN Return(r.v) ELSE Throw(SyntaxErrorMessage)

\* ------------------------------------------------------------------------
\* The dispatcher
\* ------------------------------------------------------------------------
\* The arguments of a tools/call request: params.arguments is optional in
\* the protocol, so a call may carry none at all.
NoArguments == [defined |-> FALSE, rec |-> <<>>]
Arguments(rec) == [defined |-> TRUE, rec |-> rec]

\* args.x
Arg(args, x) == IF x \in DOMAIN args.rec THEN args.rec[x] ELSE Undef

\* The TypeError of reading a property of undefined.
TypeErrorReading(of, prop) ==
    "Cannot read properties of " \o of \o " (reading '" \o prop \o "')"

\* The first property of args a tool's case reads; "" when it reads none.
FirstRead(name) ==
    CASE name \in {"get_workspace", "add_workspace_member", "list_boards",
                   "get_board", "create_board", "list_items", "create_item",
                   "get_time_logs"} -> "workspaceId"
      [] name \in {"list_rows", "list_statuses", "create_row",
                   "list_activities"} -> "boardId"
      [] name \in {"get_item", "delete_item", "move_item", "archive_item",
                   "list_attachments", "upload_attachment"} -> "itemId"
      [] name \in {"get_attachment", "download_attachment", "update_attachment",
                   "delete_attachment"} -> "attachmentId"
      [] name \in {"create_workspace", "update_item"} -> "title"
      [] name = "list_system_logs" -> "fromDate"
      [] OTHER -> ""

\* URLSearchParams: a sequence of [k, v] pairs of strings.
Param(k, v) == [k |-> k, v |-> v]

\* `if (cond) params.append(k, String(v))`
AppendIf(cond, k, v) == IF cond THEN <<Param(k, ToStr(v))>> ELSE <<>>

\* A truthy value `for (const x of v)` throws a TypeError for.
NotIterable(v) == Truthy(v) /\ v.t \notin {"array", "string"}

\* Mutant of AppendEach: the array is appended once, comma-joined.
AppendEach_Joined(k, v) ==
    IF Truthy(v) /\ v.t = "array" THEN <<Param(k, ToStr(v))>> ELSE <<>>

\* `if (v) for (const x of v) params.append(k, x)`, for v an array or falsy.
AppendEach(k, v) ==
    IF Truthy(v) /\ v.t = "array"
    THEN [i \in 1..Len(v.a) |-> Param(k, ToStr(v.a[i]))]
    ELSE <<>>

\* application/x-www-form-urlencoded serialisation of one name or value.
\* Of the characters in this model's strings only the space is escaped.
UrlEncode(str) == IF str = "b c" THEN "b+c" ELSE str

\* URLSearchParams.prototype.toString
RECURSIVE QueryString(_)
QueryString(params) ==
    IF params = <<>> THEN ""
    ELSE UrlEncode(Head(params).k) \o "=" \o UrlEncode(Head(params).v)
         \o (IF Len(params) = 1 THEN "" ELSE "&" \o QueryString(Tail(params)))

\* Buffer.from(content, "base64") for the contents of this model.
Base64Decode(str) == IF str = "AQI=" THEN <<1, 2>> ELSE <<>>

\* The params list_items builds.
listItemsParams(args) ==
    AppendIf(Truthy(Arg(args, "workspaceId")), "WorkspaceId", Arg(args, "workspaceId"))
    \o AppendIf(Truthy(Arg(args, "boardId")), "BoardId", Arg(args, "boardId"))
    \o AppendIf(Truthy(Arg(args, "statusId")), "StatusId", Arg(args, "statusId"))
    \o AppendIf(Truthy(Arg(args, "rowId")), "RowId", Arg(args, "rowId"))
    \o AppendIf(Truthy(Arg(args, "assignedUserId")), "AssignedUserId",
                Arg(args, "assignedUserId"))
    \o AppendIf(Truthy(Arg(args, "ownerId")), "OwnerId", Arg(args, "ownerId"))
    \o AppendIf(Truthy(Arg(args, "parentId")), "ParentId", Arg(args, "parentId"))
    \o AppendIf(Arg(args, "completed") # Undef, "Completed", Arg(args, "completed"))
    \o AppendEach("Tags", Arg(args, "tags"))
    \o AppendEach("CustomFields", Arg(args, "customFields"))
    \o AppendIf(Truthy(Arg(args, "createdSince")), "CreatedSince",
                Arg(args, "createdSince"))
    \o AppendIf(Truthy(Arg(args, "modifiedSince")), "ModifiedSince",
                Arg(args, "modifiedSince"))
    \o AppendIf(Truthy(Arg(args, "completedSince")), "CompletedSince",
                Arg(args, "completedSince"))
    \o AppendIf(Arg(args, "includeChildItems") # Undef, "IncludeChildItems",
                Arg(args, "includeChildItems"))
    \o AppendIf(Arg(args, "skip") # Undef, "Skip", Arg(args, "skip"))
    \o AppendIf(Arg(args, "take") # Undef, "Take", Arg(args, "take"))

\* x || []
OrEmpty(v) == IF Truthy(v) THEN v ELSE Arr(<<>>)

\* Mutant of Coalesce: x || d, which replaces false and 0 as well.
Coalesce_Or(v, d) == IF Truthy(v) THEN v ELSE d

\* x ?? d
Coalesce(v, d) == IF Nullish(v) THEN d ELSE v

\* `if (args.x !== undefined) updateData.y = args.x`
SetIf(args, x, y) == IF Arg(args, x) # Undef THEN <<Member(y, Arg(args, x))>> ELSE <<>>

\* Mutant of updateData: a field the caller left out is sent as null.
updateData_Nulls(args) ==
    LET field(x, y) == <<Member(y, Coalesce(Arg(args, x), Null))>>
    IN Obj(field("title", "title") \o field("description", "description")
           \o field("statusId", "statusId") \o field("rowId", "rowId")
           \o field("boardId", "boardId") \o field("assigneeId", "userId")
           \o field("startDate", "startDate") \o field("dueDate", "dueDate")
           \o field("color", "color") \o field("tags", "tags")
           \o field("customFields", "customFields")
           \o field("blocking", "blocking") \o field("waiting", "waiting")
           \o field("archived", "archived") \o field("milestone", "milestone")
           \o field("progress", "progress") \o field("parentId", "parentId"))

\* The updateData object update_item builds.
updateData(args) ==
    Obj(SetIf(args, "title", "title") \o SetIf(args, "description", "description")
        \o SetIf(args, "statusId", "statusId") \o SetIf(args, "rowId", "rowId")
        \o SetIf(args, "boardId", "boardId") \o SetIf(args, "assigneeId", "userId")
        \o SetIf(args, "startDate", "startDate") \o SetIf(args, "dueDate", "dueDate")
        \o SetIf(args, "color", "color") \o SetIf(args, "tags", "tags")
        \o SetIf(args, "customFields", "customFields")
        \o SetIf(args, "blocking", "blocking") \o SetIf(args, "waiting", "waiting")
        \o SetIf(args, "archived", "archived") \o SetIf(args, "milestone", "milestone")
        \o SetIf(args, "progress", "progress") \o SetIf(args, "parentId", "parentId"))

\* Mutant of createItemBody: the assignee keeps the argument's name.
createItemBody_AssigneeId(args) ==
    Obj(<< Member("workspaceId", Arg(args, "workspaceId")),
           Member("boardId", Arg(args, "boardId")),
           Member("statusId", Arg(args, "statusId")),
           Member("title", Arg(args, "title")),
           Member("description", Arg(args, "description")),
           Member("rowId", Arg(args, "rowId")),
           Member("assigneeId", Arg(args, "assigneeId")),
           Member("startDate", Arg(args, "startDate")),
           Member("dueDate", Arg(args, "dueDate")),
           Member("color", Arg(args, "color")),
           Member("tags", OrEmpty(Arg(args, "tags"))),
           Member("customFields", OrEmpty(Arg(args, "customFields"))),
           Member("blocking", OrEmpty(Arg(args, "blocking"))),
           Member("waiting", OrEmpty(Arg(args, "waiting"))),
           Member("milestone", Bool(FALSE)),
           Member("isSuspended", Bool(FALSE)),
           Member("suspendReason", Str("")) >>)

\* The body create_item posts.
createItemBody(args) ==
    Obj(<< Member("workspaceId", Arg(args, "workspaceId")),
           Member("boardId", Arg(args, "boardId")),
           Member("statusId", Arg(args, "statusId")),
           Member("title", Arg(args, "title")),
           Member("description", Arg(args, "description")),
           Member("rowId", Arg(args, "rowId")),
           Member("assignedUserId", Arg(args, "assigneeId")),
           Member("startDate", Arg(args, "startDate")),
           Member("dueDate", Arg(args, "dueDate")),
           Member("color", Arg(args, "color")),
           Member("tags", OrEmpty(Arg(args, "tags"))),
           Member("customFields", OrEmpty(Arg(args, "customFields"))),
           Member("blocking", OrEmpty(Arg(args, "blocking"))),
           Member("waiting", OrEmpty(Arg(args, "waiting"))),
           Member("milestone", Bool(FALSE)),
           Member("isSuspended", Bool(FALSE)),
           Member("suspendReason", Str("")) >>)

\* An object literal whose members are args' properties of the same names.
Pick(args, names) ==
    Obj([i \in 1..Len(names) |-> Member(names[i], Arg(args, names[i]))])

\* The message Buffer.from throws for a first argument that is neither a
\* string nor array-like.
BufferTypeErrorMessage ==
    "The first argument must be of type string or an instance of Buffer, ArrayBuffer, or Array or an Array-like Object."

\* Mutant of uploadAttachment: the content is converted with String() and
\* so never rejected.
uploadAttachment_Unchecked(args) ==
    LET name == Arg(args, "name")
    IN Fetch([url |-> BASE_URL \o "/attachments",
              method |-> "POST",
              headers |-> [h \in {"Authorization"} |-> API_KEY],
              body |-> MultipartBody(
                  << [name |-> "ItemId", value |-> ToStr(Arg(args, "itemId"))],
                     [name |-> "Name", value |-> ToStr(name)],
                     [name |-> "Content",
                      bytes |-> Base64Decode(ToStr(Arg(args, "content"))),
                      filename |-> IF name = Undef THEN "blob" ELSE ToStr(name)] >>)],
             "upload")

\* upload_attachment up to `await fetch(url, {...})`.
uploadAttachment(args) ==
    LET content == Arg(args, "content")
        name == Arg(args, "name")
        \* Buffer.from of an array takes its elements as the bytes
        bytes == IF content.t = "string" THEN Base64Decode(content.s)
                 ELSE [i \in 1..Len(content.a) |->
                          IF content.a[i].t = "number" THEN content.a[i].n % 256 ELSE 0]
    IN IF content.t \notin {"string", "array"} THEN Throw(BufferTypeErrorMessage)
       ELSE Fetch([url |-> BASE_URL \o "/attachments",
                   method |-> "POST",
                   headers |-> [h \in {"Authorization"} |-> API_KEY],
                   body |-> MultipartBody(
                       << [name |-> "ItemId", value |-> ToStr(Arg(args, "itemId"))],
                          [name |-> "Name", value |-> ToStr(name)],
                          [name |-> "Content", bytes |-> bytes,
                           filename |-> IF name = Undef THEN "blob" ELSE ToStr(name)] >>)],
                  "upload")

\* The switch of handleToolCall for a call that carries arguments: what the
\* tool's case does up to its first await.
dispatch(name, args) ==
    CASE name = "list_workspaces" -> apiRequest("/workspaces", "GET", Undef)
      [] name = "get_workspace" ->
           apiRequest("/workspaces/" \o ToStr(Arg(args, "workspaceId")), "GET", Undef)
      [] name = "create_workspace" ->
           apiRequest("/workspaces", "POST",
                      Pick(args, <<"title", "displayId", "icon", "color",
                                   "templateId", "ownerId">>))
      [] name = "add_workspace_member" ->
           apiRequest("/workspaces/" \o ToStr(Arg(args, "workspaceId"))
                      \o "/users/" \o ToStr(Arg(args, "userId")), "PUT", Obj(<<>>))
      [] name \in {"list_boards", "get_board"} ->
           apiRequest("/workspaces/" \o ToStr(Arg(args, "workspaceId")) \o "/boards",
                      "GET", Undef)
      [] name = "create_board" ->
           apiRequest("/boards", "POST",
                      Pick(args, <<"workspaceId", "title", "displayId",
                                   "templateId", "viewType">>))
      [] name = "list_rows" ->
           apiRequest("/boards/" \o ToStr(Arg(args, "boardId")) \o "/rows", "GET", Undef)
      [] name = "list_statuses" ->
           apiRequest("/boards/" \o ToStr(Arg(args, "boardId")) \o "/statuses",
                      "GET", Undef)
      [] name = "create_row" ->
           apiRequest("/rows", "POST",
                      Pick(args, <<"boardId", "title", "startDate", "endDate">>))
      [] name = "list_items" ->
           LET query == QueryString(listItemsParams(args))
           IN IF NotIterable(Arg(args, "tags"))
              THEN Throw("args.tags is not iterable")
              ELSE IF NotIterable(Arg(args, "customFields"))
              THEN Throw("args.customFields is not iterable")
              ELSE
              apiRequest("/items" \o (IF query # "" THEN "?" \o query ELSE ""),
                         "GET", Undef)
      [] name = "get_item" ->
           apiRequest("/items/" \o ToStr(Arg(args, "itemId")), "GET", Undef)
      [] name = "create_item" -> apiRequest("/items", "POST", createItemBody(args))
      [] name = "update_item" ->
           apiRequest("/items/" \o ToStr(Arg(args, "itemId")), "PUT",
                      Obj(<<Member("data", updateData(args))>>))
      [] name = "delete_item" ->
           apiRequest("/items/" \o ToStr(Arg(args, "itemId")), "DELETE", Undef)
      [] name = "move_item" ->
           apiRequest("/items/" \o ToStr(Arg(args, "itemId")), "PUT",
                      Obj(<<Member("data",
                          Obj(<< Member("boardId", Arg(args, "targetBoardId")),
                                 Member("statusId", Arg(args, "targetStatusId")),
                                 Member("rowId", Arg(args, "targetRowId")) >>))>>))
      [] name = "archive_item" ->
           apiRequest("/items/" \o ToStr(Arg(args, "itemId")), "PUT",
                      Obj(<<Member("data",
                          Obj(<<Member("archived",
                                       Coalesce(Arg(args, "archived"), Bool(TRUE)))>>))>>))
      [] name = "list_attachments" ->
           apiRequest("/items/" \o ToStr(Arg(args, "itemId")) \o "/attachments",
                      "GET", Undef)
      [] name = "get_attachment" ->
           apiRequest("/attachments/" \o ToStr(Arg(args, "attachmentId")), "GET", Undef)
      [] name = "download_attachment" ->
           apiRequest("/attachments/" \o ToStr(Arg(args, "attachmentId")) \o "/content",
                      "GET", Undef)
      [] name = "update_attachment" ->
           apiRequest("/attachments/" \o ToStr(Arg(args, "attachmentId")), "PUT",
                      Obj(<<Member("Name", Arg(args, "name"))>>))
      [] name = "delete_attachment" ->
           apiRequest("/attachments/" \o ToStr(Arg(args, "attachmentId")),
                      "DELETE", Undef)
      [] name = "upload_attachment" -> uploadAttachment(args)
      [] name = "list_users" -> apiRequest("/users", "GET", Undef)
      [] name = "get_time_logs" ->
           apiRequest("/timelogs", "POST",
                      Pick(args, <<"workspaceId", "startDate", "endDate", "boardIds",
                                   "rowIds", "userIds", "tags">>))
      [] name = "list_workspace_templates" ->
           apiRequest("/templates/workspace", "GET", Undef)
      [] name = "list_board_templates" -> apiRequest("/templates/board", "GET", Undef)
      [] name = "list_activities" ->
           apiRequest("/boards/" \o ToStr(Arg(args, "boardId")) \o "/item-activities",
                      "POST",
                      Obj(<< Member("startDate", Arg(args, "startDate")),
                             Member("endDate", Arg(args, "endDate")),
                             Member("offset", Coalesce(Arg(args, "offset"), Num(0))),
                             Member("limit", Coalesce(Arg(args, "limit"), Num(100))) >>))
      [] name = "list_system_logs" ->
           apiRequest("/logs?" \o QueryString(
                          <<Param("fromDate", ToStr(Arg(args, "fromDate"))),
                            Param("toDate", ToStr(Arg(args, "toDate")))>>
                          \o AppendIf(Arg(args, "skip") # Undef, "skip", Arg(args, "skip"))
                          \o AppendIf(Arg(args, "take") # Undef, "take", Arg(args, "take"))),
                      "GET", Undef)
      [] OTHER -> Throw("Unknown tool: " \o name)

\* Mutant of handleToolCall: the arguments are read before the switch, so
\* a call without arguments throws whatever its name.
handleToolCall_ArgsFirst(name, args) ==
    IF ~args.defined
    THEN Throw(TypeErrorReading("undefined", "workspaceId"))
    ELSE dispatch(name, args)

\* handleToolCall up to its first await.  Without arguments the first
\* `args.x` a case evaluates throws a TypeError.
handleToolCall(name, args) ==
    IF ~args.defined /\ FirstRead(name) # ""
    THEN Throw(TypeErrorReading("undefined", FirstRead(name)))
    ELSE dispatch(name, args)

\* a === b for a primitive b: objects and arrays are equal only to themselves.
StrictEquals(a, b) == a.t \notin {"array", "object"} /\ a = b

\* b.id for an element of the boards array.
IdOf(b) == Get(b, "id")

\* Mutant of findBoard: the first listed board is returned whatever its id.
findBoard_First(boards, args) ==
    IF boards.t = "null" THEN Throw(TypeErrorReading("null", "find"))
    ELSE IF boards.t # "array" THEN Throw("boards.find is not a function")
    ELSE IF boards.a = <<>>
         THEN Throw("Board " \o ToStr(Arg(args, "boardId")) \o " not found in workspace")
    ELSE Return(boards.a[1])

\* The rest of get_board, from the value apiRequest resolved with.
findBoard(boards, args) ==
    IF boards.t = "null" THEN Throw(TypeErrorReading("null", "find"))
    ELSE IF boards.t # "array" THEN Throw("boards.find is not a function")
    ELSE LET boardId == Arg(args, "boardId")
             \* find visits the elements in order up to the first match
             hit(i) == ~Nullish(boards.a[i]) /\ StrictEquals(IdOf(boards.a[i]), boardId)
             first == IF \E i \in 1..Len(boards.a) : hit(i)
                      THEN CHOOSE i \in 1..Len(boards.a) :
                               hit(i) /\ \A j \in 1..(i - 1) : ~hit(j)
                      ELSE 0
             nullBefore == \E i \in 1..Len(boards.a) :
                               Nullish(boards.a[i]) /\ (first = 0 \/ i < first)
         IN IF nullBefore THEN Throw(TypeErrorReading("null", "id"))
            ELSE IF first = 0 \/ ~Truthy(boards.a[first])
                 THEN Throw("Board " \o ToStr(boardId) \o " not found in workspace")
            ELSE Return(boards.a[first])

\* Mutant of uploadResponse: the text is parsed even when it is empty.
uploadResponse_ParseAlways(answer) ==
    IF answer.kind = "reject" THEN Throw(answer.message)
    ELSE IF ~ResponseOk(answer.status)
    THEN Throw("Upload failed " \o ToString(answer.status) \o ": " \o Text(answer.body))
    ELSE LET r == JSONParse(answer.body)
         IN IF r.ok THEN Return(r.v) ELSE Throw(SyntaxErrorMessage)

\* upload_attachment from the settlement of fetch on.
uploadResponse(answer) ==
    IF answer.kind = "reject" THEN Throw(answer.message)
    ELSE IF ~ResponseOk(answer.status)
    THEN Throw("Upload failed " \o ToString(answer.status) \o ": " \o Text(answer.body))
    ELSE IF Text(answer.body) = "" THEN Return(Obj(<<>>))
    ELSE LET r == JSONParse(answer.body)
         IN IF r.ok THEN Return(r.v) ELSE Throw(SyntaxErrorMessage)

\* handleToolCall from the settlement of the fetch it awaits on.
resumeToolCall(name, args, via, answer) ==
    IF via = "upload" THEN uploadResponse(answer)
    ELSE LET r == apiResponse(answer)
         IN IF r.kind = "return" /\ name = "get_board"
            THEN findBoard(r.value, args)
            ELSE r

\* ------------------------------------------------------------------------
\* The protocol endpoint
\* ------------------------------------------------------------------------
TextBlock(text) == [type |-> "text", text |-> text]

\* Mutant of callToolResult: the catch branch forgets the error flag.
callToolResult_Unflagged(effect) ==
    IF effect.kind = "return"
    THEN [content |-> <<TextBlock(Text(JSONStringifyPretty(effect.value)))>>]
    ELSE [content |-> <<TextBlock("Error: " \o effect.message)>>]

\* The result the CallToolRequestSchema handler returns for what
\* handleToolCall ended with: its try branch for a returned value, its
\* catch branch for a thrown error.
callToolResult(effect) ==
    IF effect.kind = "return"
    THEN [content |-> <<TextBlock(Text(JSONStringifyPretty(effect.value)))>>]
    ELSE [content |-> <<TextBlock("Error: " \o effect.message)>>, isError |-> TRUE]

\* The result the ListToolsRequestSchema handler returns.
listToolsResult == [tools |-> tools]

\* ------------------------------------------------------------------------
\* Inputs
\* ------------------------------------------------------------------------
\* The number of ways one call's arguments differ from the tool's required
\* arguments at their typical values: a required argument left out, an
\* optional one supplied, a supplied one given its falsy value.
MaxVaried == 2

\* The number of protocol requests the server handles at once.
MaxInFlight == 2

Slots == 1..MaxInFlight

RECURSIVE SubsetsUpTo(_, _)
\* The subsets of S with at most n elements.
SubsetsUpTo(S, n) ==
    IF n = 0 THEN {{}}
    ELSE LET smaller == SubsetsUpTo(S, n - 1)
         IN smaller \cup {T \cup {x} : T \in smaller, x \in S}

\* A value of the declared type that is truthy.
Typical(type, arg) ==
    CASE type = "string" -> (IF arg = "content" THEN Str("AQI=") ELSE Str("v_" \o arg))
      [] type = "number" -> Num(7)
      [] type = "boolean" -> Bool(TRUE)
      [] type = "array<string>" -> Arr(<<Str("a"), Str("b c")>>)
      [] OTHER -> Arr(<<Obj(<<Member("name", Str("n1")), Member("value", Str("x1"))>>)>>)

\* The falsy (for an array, the empty) value of the declared type.
Falsy(type) ==
    CASE type = "string" -> Str("")
      [] type = "number" -> Num(0)
      [] type = "boolean" -> Bool(FALSE)
      [] OTHER -> Arr(<<>>)

\* A value of another type than the declared one.
Mistyped(type) == IF type = "number" THEN Str("x") ELSE Num(7)

\* The argument record that supplies `present`, those in `falsy` at their
\* falsy value.
ArgRecord(d, present, falsy) ==
    Arguments([a \in present |->
                  IF a \in falsy THEN Falsy(TypeOf(d, a))
                  ELSE Typical(TypeOf(d, a), a)])

\* The argument record that supplies the required arguments and `arg`,
\* `arg` with a value of the wrong type.
MistypedRecord(d, arg) ==
    Arguments([a \in d.required \cup {arg} |->
                  IF a = arg THEN Mistyped(TypeOf(d, a))
                  ELSE Typical(TypeOf(d, a), a)])

\* The argument records a call of tool d is tried with.
ArgumentsFor(d) ==
    LET optional == PropertyNames(d) \ d.required
    IN {NoArguments, ArgRecord(d, PropertyNames(d), {})}
       \cup {MistypedRecord(d, a) : a \in PropertyNames(d)}
       \cup UNION { UNION { { ArgRecord(d, (d.required \ M) \cup O, E) :
                                E \in SubsetsUpTo((d.required \ M) \cup O,
                                                  MaxVaried - Cardinality(M \cup O)) } :
                            O \in SubsetsUpTo(optional, MaxVaried - Cardinality(M)) } :
                    M \in SubsetsUpTo(d.required, MaxVaried) }

\* Names no case of the dispatcher handles; the second and third are tools
\* the README lists.
UnknownNames == {"unknown_tool_xyz", "update_workspace_member", "log_time"}

\* The schema-less argument records an unknown name is tried with.
UnknownArguments ==
    {NoArguments, Arguments(<<>>), Arguments([itemId |-> Str("v_itemId")])}

\* Every (name, arguments) pair a tools/call request is tried with.
Inputs ==
    UNION { {[name |-> tools[i].name, args |-> a] : a \in ArgumentsFor(tools[i])} :
            i \in 1..Len(tools) }
    \cup {[name |-> n, args |-> a] : n \in UnknownNames, a \in UnknownArguments}

\* The process environments loadSecrets is tried with.
Environments ==
    { [secretsFile |-> "missing", fileKey |-> "", fileUrl |-> "",
       envKey |-> "", envUrl |-> ""],
      [secretsFile |-> "decrypted", fileKey |-> "th-file-key", fileUrl |-> "",
       envKey |-> "th-env-key", envUrl |-> "https://api-acme.teamhood.com/api/v1"] }

\* The response bodies the backend is tried with.
EmptyBody == <<>>
ObjectBody ==
    << Punct("{"), StrTok("id"), Punct(":"), StrTok("I1"), Punct(","),
       StrTok("tags"), Punct(":"), Punct("["), StrTok("a"), Punct("]"), Punct("}") >>
BoardsBody ==
    << Punct("["), Punct("{"), StrTok("id"), Punct(":"), StrTok("B0"), Punct("}"),
       Punct(","), Space(" "),
       Punct("{"), StrTok("id"), Punct(":"), StrTok("v_boardId"), Punct(","),
       StrTok("title"), Punct(":"), StrTok("Sprint"), Punct("}"), Punct("]") >>
RawBody == <<RawTok("Not found")>>

\* What a fetch is tried to settle with: a success status with each body,
\* 204 No Content, a failure status with a text and with a JSON body, and
\* the rejection of a network failure.
Answers ==
    {Responded(200, b) : b \in {EmptyBody, ObjectBody, BoardsBody, RawBody}}
    \cup {Responded(204, EmptyBody)}
    \cup {Responded(st, b) : st \in {404, 500}, b \in {RawBody, ObjectBody}}
    \cup {Rejected("fetch failed")}

\* ------------------------------------------------------------------------
\* Behaviour
\* ------------------------------------------------------------------------
NoAnswer == [kind |-> "none"]
NoResponse == [pending |-> TRUE]

\* A slot that handles no request.
IdleCall ==
    [pc |-> "idle", method |-> "", name |-> "", args |-> NoArguments,
     requests |-> <<>>, via |-> "", answer |-> NoAnswer, response |-> NoResponse]

\* The module is loaded: secrets are resolved, the server is constructed
\* and its handlers registered; main has not connected the transport yet.
Init ==
    /\ process = "starting"
    /\ \E env \in Environments :
          /\ API_KEY = loadSecrets(env).apiKey
          /\ BASE_URL = loadSecrets(env).baseUrl
    /\ calls = [c \in Slots |-> IdleCall]

\* main: server.connect(transport) resolves.
Connect ==
    /\ process = "starting"
    /\ process' = "ready"
    /\ UNCHANGED <<API_KEY, BASE_URL, calls>>

\* main: server.connect(transport) rejects; the catch logs and exits.
ConnectFails ==
    /\ process = "starting"
    /\ process' = "exited"
    /\ UNCHANGED <<API_KEY, BASE_URL, calls>>

\* A tools/list request arrives on slot c and is answered.
ListTools(c) ==
    /\ process = "ready"
    /\ calls[c].pc = "idle"
    /\ calls' = [calls EXCEPT ![c] =
                    [IdleCall EXCEPT !.pc = "done", !.method = "tools/list",
                                     !.response = listToolsResult]]
    /\ UNCHANGED <<process, API_KEY, BASE_URL>>

\* A tools/call request arrives on slot c: the handler runs handleToolCall
\* up to its first await, or to the error it throws before any.
CallTool(c, name, args) ==
    /\ process = "ready"
    /\ calls[c].pc = "idle"
    /\ LET effect == handleToolCall(name, args)
       IN calls' = [calls EXCEPT ![c] =
              IF effect.kind = "fetch"
              THEN [IdleCall EXCEPT !.pc = "awaiting", !.method = "tools/call",
                                    !.name = name, !.args = args,
                                    !.requests = <<effect.request>>,
                                    !.via = effect.via]
              ELSE [IdleCall EXCEPT !.pc = "done", !.method = "tools/call",
                                    !.name = name, !.args = args,
                                    !.response = callToolResult(effect)]]
    /\ UNCHANGED <<process, API_KEY, BASE_URL>>

\* The fetch slot c awaits settles: the handler runs to its end.
FetchSettles(c, answer) ==
    /\ process = "ready"
    /\ calls[c].pc = "awaiting"
    /\ LET call == calls[c]
       IN calls' = [calls EXCEPT ![c] =
              [call EXCEPT !.pc = "done", !.answer = answer,
                           !.response = callToolResult(
                               resumeToolCall(call.name, call.args, call.via, answer))]]
    /\ UNCHANGED <<process, API_KEY, BASE_URL>>

\* Mutant of Deliver: the handlers share their result, so writing one out
\* resets every request being handled.
Deliver_ClearsAll(c) ==
    /\ process = "ready"
    /\ calls[c].pc = "done"
    /\ calls' = [d \in Slots |-> IdleCall]
    /\ UNCHANGED <<process, API_KEY, BASE_URL>>

\* The result of slot c is written to the transport.
Deliver(c) ==
    /\ process = "ready"
    /\ calls[c].pc = "done"
    /\ calls' = [calls EXCEPT ![c] = IdleCall]
    /\ UNCHANGED <<process, API_KEY, BASE_URL>>

\* No request is being handled.
Quiet == \A c \in Slots : calls[c].pc = "idle"

\* A client that sends one request at a time and waits for its result.
Next ==
    \/ Connect
    \/ ConnectFails
    \/ Quiet /\ ListTools(1)
    \/ \E in \in Inputs : Quiet /\ CallTool(1, in.name, in.args)
    \/ \E c \in Slots, answer \in Answers : FetchSettles(c, answer)
    \/ \E c \in Slots : Deliver(c)

Spec == Init /\ [][Next]_vars

\* The fetch a handler awaits settles: the HTTP client answers, fails or
\* times out.  A settled handler's result is written out.
FairSpec ==
    /\ Spec
    /\ WF_vars(\E c \in Slots, answer \in Answers : FetchSettles(c, answer))
    /\ WF_vars(\E c \in Slots : Deliver(c))

\* The calls a client that does not wait for results is tried with.
ConcurrentInputs ==
    { [name |-> "get_board",
       args |-> ArgRecord(Descriptor("get_board"), {"workspaceId", "boardId"}, {})],
      [name |-> "archive_item",
       args |-> ArgRecord(Descriptor("archive_item"), {"itemId"}, {})],
      [name |-> "upload_attachment",
       args |-> ArgRecord(Descriptor("upload_attachment"),
                          {"itemId", "name", "content"}, {})],
      [name |-> "unknown_tool_xyz", args |-> Arguments(<<>>)] }

\* A client that sends requests while earlier ones are being handled: the
\* handlers interleave at their awaits.
ConcurrentNext ==
    \/ Connect
    \/ ConnectFails
    \/ \E c \in Slots : ListTools(c)
    \/ \E c \in Slots, in \in ConcurrentInputs : CallTool(c, in.name, in.args)
    \/ \E c \in Slots, answer \in Answers : FetchSettles(c, answer)
    \/ \E c \in Slots : Deliver(c)

ConcurrentSpec == Init /\ [][ConcurrentNext]_vars

\* ------------------------------------------------------------------------
\* Properties
\* ------------------------------------------------------------------------
\* Slot c holds the result of a tools/call request.
Answered(c) == calls[c].method = "tools/call" /\ calls[c].pc = "done"

\* Slot c has sent a request to the backend.
Sent(c) == calls[c].method = "tools/call" /\ calls[c].requests # <<>>

\* A result flagged as an error.
IsError(result) == "isError" \in DOMAIN result /\ result.isError = TRUE

\* A result that is exactly one text block, not flagged.
SuccessText(text) == [content |-> <<TextBlock(text)>>]

\* A result that is exactly one text block, flagged as an error.
ErrorText(text) == [content |-> <<TextBlock(text)>>, isError |-> TRUE]

\* The backend answered slot c with a status outside 200..299.
BackendFailed(c) ==
    calls[c].answer.kind = "response" /\ calls[c].answer.status \notin 200..299

\* The backend answered slot c with a status in 200..299.
BackendSucceeded(c) ==
    calls[c].answer.kind = "response" /\ calls[c].answer.status \in 200..299

\* The ids of the boards BoardsBody lists.
ListedBoardIds == {Str("B0"), Str("v_boardId")}

\* get_board on slot c was answered with a board list that lacks boardId.
BoardMissing(c) ==
    /\ calls[c].name = "get_board"
    /\ BackendSucceeded(c)
    /\ calls[c].answer.body = BoardsBody
    /\ Arg(calls[c].args, "boardId") \notin ListedBoardIds

\* The backend answered slot c with a success status and a body that is
\* not JSON.
BodyMalformed(c) == BackendSucceeded(c) /\ calls[c].answer.body = RawBody

\* Handling the request of slot c met one of the failures of a tool call:
\* an unknown tool, a transport failure (the fetch rejected, the body was
\* malformed), a failure status of the backend, a board not found.
Failed(c) ==
    \/ calls[c].name \notin CatalogNames
    \/ calls[c].answer.kind = "reject"
    \/ BodyMalformed(c)
    \/ BackendFailed(c)
    \/ BoardMissing(c)

\* C1, the state part: a failure met while handling one invocation has
\* become the error-flagged single-text-block result of that invocation,
\* and the process has not exited.
C1_FailureRecovered ==
    \A c \in Slots :
        Answered(c) /\ Failed(c) =>
            /\ process = "ready"
            /\ IsError(calls[c].response)
            /\ Len(calls[c].response.content) = 1
            /\ calls[c].response.content[1].type = "text"

\* C1: every failure raised while handling a call_tool invocation is
\* converted into an error-flagged response for that invocation; the
\* endpoint, once ready, stays ready whatever the calls end with; and every
\* accepted call is answered, after which its slot accepts the next call.
C1_ErrorsNeverTerminate ==
    /\ []C1_FailureRecovered
    /\ [][process = "ready" => process' = "ready"]_vars
    /\ \A c \in Slots :
          (calls[c].pc # "idle") ~> (calls[c].pc = "idle" /\ process = "ready")

\* C1 witness: a call that failed at the backend has been answered.
C1_Witness ==
    \E c \in Slots :
        /\ Answered(c) /\ BackendFailed(c)
        /\ calls[c].name = "get_item"
        /\ IsError(calls[c].response)

\* C2: a call_tool that names no catalog tool returns the error-flagged
\* result whose single text block is "Error: Unknown tool: <name>",
\* whatever its arguments.
C2_UnknownTool ==
    \A c \in Slots :
        Answered(c) /\ calls[c].name \notin CatalogNames =>
            calls[c].response = ErrorText("Error: Unknown tool: " \o calls[c].name)

\* C2 witness: unknown_tool_xyz called without arguments has been answered.
C2_Witness ==
    \E c \in Slots :
        /\ Answered(c)
        /\ calls[c].name = "unknown_tool_xyz"
        /\ ~calls[c].args.defined
        /\ calls[c].response = ErrorText("Error: Unknown tool: unknown_tool_xyz")

\* The call of slot c supplies every argument its tool's schema requires.
RequiredPresent(c) ==
    /\ calls[c].args.defined
    /\ Descriptor(calls[c].name).required \subseteq DOMAIN calls[c].args.rec

\* The response bodies that are JSON, each with its value pretty-printed
\* with 2-space indentation and with its literal text.
JsonBodies == {ObjectBody, BoardsBody}

PrettyText(body) ==
    IF body = ObjectBody
    THEN "{\n  \"id\": \"I1\",\n  \"tags\": [\n    \"a\"\n  ]\n}"
    ELSE "[\n  {\n    \"id\": \"B0\"\n  },\n  {\n    \"id\": \"v_boardId\",\n    \"title\": \"Sprint\"\n  }\n]"

LiteralText(body) ==
    CASE body = ObjectBody -> "{\"id\":\"I1\",\"tags\":[\"a\"]}"
      [] body = RawBody -> "Not found"
      [] body = EmptyBody -> ""

\* The second board of BoardsBody, pretty-printed.
PrettyBoard == "{\n  \"id\": \"v_boardId\",\n  \"title\": \"Sprint\"\n}"

\* The backend answered the request of slot c with a success status and a
\* JSON body, and the call supplied its required arguments.
MockedSuccess(c) ==
    /\ Answered(c)
    /\ calls[c].name \in CatalogNames
    /\ RequiredPresent(c)
    /\ BackendSucceeded(c)
    /\ calls[c].answer.body \in JsonBodies

\* C3 as stated: for every catalog tool, a call with its required
\* arguments and a backend answering success with a JSON body returns the
\* unflagged result whose single text block is that JSON pretty-printed
\* with 2-space indentation.
C3_EveryToolReturnsBody ==
    \A c \in Slots :
        MockedSuccess(c) =>
            calls[c].response = SuccessText(PrettyText(calls[c].answer.body))

\* C3 as amended: that holds for every catalog tool but get_board, which
\* returns the element of the listed boards whose id is boardId, or an
\* error-flagged result, and always the latter when the body is no array
\* or lists no such board.
C3_EveryToolButGetBoardReturnsBody ==
    \A c \in Slots :
        MockedSuccess(c) =>
            IF calls[c].name # "get_board"
            THEN calls[c].response = SuccessText(PrettyText(calls[c].answer.body))
            ELSE IF /\ calls[c].answer.body = BoardsBody
                    /\ Arg(calls[c].args, "boardId") = Str("v_boardId")
                 THEN calls[c].response = SuccessText(PrettyBoard)
                 ELSE IsError(calls[c].response)

\* C3 witness: create_item with its required arguments was answered with
\* the pretty-printed object the backend sent.
C3_Witness ==
    \E c \in Slots :
        /\ MockedSuccess(c)
        /\ calls[c].name = "create_item"
        /\ calls[c].answer.body = ObjectBody
        /\ calls[c].response = SuccessText(PrettyText(ObjectBody))

\* The backend answered the request of a catalog tool on slot c with a
\* failure status.
MockedFailure(c) ==
    Answered(c) /\ calls[c].name \in CatalogNames /\ BackendFailed(c)

\* The text "<prefix> S: B" for the answer of slot c.
FailureText(c, prefix) ==
    "Error: " \o prefix \o " " \o ToString(calls[c].answer.status) \o ": "
    \o LiteralText(calls[c].answer.body)

\* C4 as stated: for every catalog tool, a backend answer with failure
\* status S and body text B gives an error-flagged result whose text holds
\* "API Error S" and B (the text is "Error: API Error S: B").
C4_EveryToolReportsApiError ==
    \A c \in Slots :
        MockedFailure(c) => calls[c].response = ErrorText(FailureText(c, "API Error"))

\* C4 as amended: that holds for every catalog tool but upload_attachment,
\* whose error-flagged text is "Error: Upload failed S: B".
C4_ApiErrorOrUploadFailed ==
    \A c \in Slots :
        MockedFailure(c) =>
            calls[c].response =
                ErrorText(FailureText(c, IF calls[c].name = "upload_attachment"
                                         THEN "Upload failed" ELSE "API Error"))

\* C4 witness: get_board was answered 404 "Not found" and reports it.
C4_Witness ==
    \E c \in Slots :
        /\ MockedFailure(c)
        /\ calls[c].name = "get_board"
        /\ calls[c].answer = Responded(404, RawBody)
        /\ calls[c].response = ErrorText("Error: API Error 404: Not found")

\* C5: every request sent to the backend, by the JSON path and by the
\* multipart upload alike, carries an Authorization header whose value is
\* the resolved API key itself.
C5_AuthorizationIsRawKey ==
    \A c \in Slots :
        \A i \in 1..Len(calls[c].requests) :
            /\ "Authorization" \in DOMAIN calls[c].requests[i].headers
            /\ calls[c].requests[i].headers["Authorization"] = API_KEY

\* C5 witness: a multipart upload has been sent with a key that is set.
C5_Witness ==
    \E c \in Slots :
        /\ Sent(c)
        /\ calls[c].requests[1].body.kind = "multipart"
        /\ API_KEY = "th-file-key"
        /\ calls[c].requests[1].headers["Authorization"] = "th-file-key"

\* C6 as stated: a request is sent for a catalog tool only when the call
\* supplies every argument the tool's schema requires.
C6_NoRequestWithoutRequired ==
    \A c \in Slots :
        Sent(c) /\ calls[c].name \in CatalogNames => RequiredPresent(c)

\* C7 as stated: an invocation of a catalog tool sends exactly one request,
\* except for the one tool that lists and then looks up (get_board), whose
\* invocation sends two.
C7_OneRequestOrTwo ==
    \A c \in Slots :
        Answered(c) /\ calls[c].name \in CatalogNames =>
            Len(calls[c].requests) = IF calls[c].name = "get_board" THEN 2 ELSE 1

\* The tools whose case reads no argument.
ArgumentFreeTools ==
    {"list_workspaces", "list_users", "list_workspace_templates", "list_board_templates"}

\* A supplied value a `for ... of` loop cannot iterate: truthy, and neither
\* an array nor a string.
Uniterable(v) ==
    \/ v.t = "number" /\ v.n # 0
    \/ v.t = "boolean" /\ v.b
    \/ v.t = "object"

\* The dispatcher throws before the call of slot c reaches the transport:
\* the call carries no arguments and its tool reads one, upload_attachment's
\* content is no value Buffer.from accepts (it is absent, a number, a
\* boolean), or a list_items array filter cannot be iterated.
ThrowsBeforeTransport(c) ==
    \/ ~calls[c].args.defined /\ calls[c].name \notin ArgumentFreeTools
    \/ /\ calls[c].name = "upload_attachment"
       /\ Arg(calls[c].args, "content").t \notin {"string", "array"}
    \/ /\ calls[c].name = "list_items"
       /\ \/ Uniterable(Arg(calls[c].args, "tags"))
          \/ Uniterable(Arg(calls[c].args, "customFields"))

\* C7 as amended: no invocation sends more than one request, get_board
\* included; an invocation of a catalog tool sends exactly one unless the
\* dispatcher throws before it reaches the transport, and then it sends none.
C7_AtMostOneRequest ==
    \A c \in Slots :
        /\ Len(calls[c].requests) <= 1
        /\ Answered(c) /\ calls[c].name \in CatalogNames =>
              Len(calls[c].requests) = IF ThrowsBeforeTransport(c) THEN 0 ELSE 1

\* C7 witness: get_board has found its board having sent one request.
C7_Witness ==
    \E c \in Slots :
        /\ Answered(c)
        /\ calls[c].name = "get_board"
        /\ calls[c].response = SuccessText(PrettyBoard)
        /\ Len(calls[c].requests) = 1

\* Slot c holds the result of a tools/list request.
Listed(c) == calls[c].method = "tools/list" /\ calls[c].pc = "done"

\* C8 as stated: list-tools returns the whole static catalog, and the
\* catalog holds exactly 30 tool descriptors.
C8_ThirtyTools ==
    \A c \in Slots :
        Listed(c) =>
            /\ calls[c].response.tools = tools
            /\ Len(calls[c].response.tools) = 30

\* The tool names the README lists under Features.
ReadmeFeatures ==
    {"list_workspaces", "get_workspace", "create_workspace", "update_workspace_member",
     "list_boards", "get_board", "create_board", "list_rows", "list_statuses",
     "create_row",
     "list_items", "get_item", "create_item", "update_item", "delete_item",
     "move_item", "archive_item",
     "list_attachments", "get_attachment", "download_attachment",
     "upload_attachment", "update_attachment", "delete_attachment",
     "log_time", "get_time_logs",
     "list_workspace_templates", "list_board_templates",
     "list_activities", "list_system_logs",
     "list_users"}

\* C9 as stated: every tool name the README lists under Features is in the
\* catalog, and a call of it never ends in the "Unknown tool" error.
C9_ReadmeToolsAreHandled ==
    \A c \in Slots :
        Answered(c) /\ calls[c].name \in ReadmeFeatures =>
            /\ calls[c].name \in CatalogNames
            /\ calls[c].response # ErrorText("Error: Unknown tool: " \o calls[c].name)

\* The JSON value the backend reads from the body of the request slot c
\* sent.
SentJson(c) == JSONParse(calls[c].requests[1].body.text).v

\* The arrays create_item always sends.
CreateItemArrays == {"tags", "customFields", "blocking", "waiting"}

\* C10: the body create_item posts to /items holds the assigneeId argument
\* under assignedUserId and no assigneeId key; tags, customFields, blocking
\* and waiting are each the supplied sequence, or an empty sequence when
\* absent; milestone = false, isSuspended = false and suspendReason = ""
\* are there whatever the arguments.
C10_CreateItemBody ==
    \A c \in Slots :
        Sent(c) /\ calls[c].name = "create_item" =>
            LET req == calls[c].requests[1]
                given == calls[c].args
            IN /\ req.method = "POST"
               /\ req.url = BASE_URL \o "/items"
               /\ req.body.kind = "json"
               /\ JSONParse(req.body.text).ok
               /\ ~HasKey(SentJson(c), "assigneeId")
               /\ "assigneeId" \in DOMAIN given.rec =>
                      Get(SentJson(c), "assignedUserId") = given.rec["assigneeId"]
               /\ "assigneeId" \notin DOMAIN given.rec =>
                      ~HasKey(SentJson(c), "assignedUserId")
               /\ \A k \in CreateItemArrays :
                      /\ k \notin DOMAIN given.rec => Get(SentJson(c), k) = Arr(<<>>)
                      /\ k \in DOMAIN given.rec /\ Arg(given, k).t = "array" =>
                             Get(SentJson(c), k) = given.rec[k]
               /\ Get(SentJson(c), "milestone") = Bool(FALSE)
               /\ Get(SentJson(c), "isSuspended") = Bool(FALSE)
               /\ Get(SentJson(c), "suspendReason") = Str("")

\* C10 witness: create_item was sent with an assignee and tags, and
\* without customFields.
C10_Witness ==
    \E c \in Slots :
        /\ Sent(c) /\ calls[c].name = "create_item"
        /\ Get(SentJson(c), "assignedUserId") = Str("v_assigneeId")
        /\ Get(SentJson(c), "tags") = Arr(<<Str("a"), Str("b c")>>)
        /\ "customFields" \notin DOMAIN calls[c].args.rec
        /\ Get(SentJson(c), "customFields") = Arr(<<>>)

\* The keys of an object.
KeysOf(v) == IF v.t = "object" THEN {v.o[i].k : i \in 1..Len(v.o)} ELSE {}

\* The arguments of update_item that name a field to update.
UpdateFields == PropertyNames(Descriptor("update_item")) \ {"itemId"}

\* The key the backend knows an update field by.
UpdateKey(a) == IF a = "assigneeId" THEN "userId" ELSE a

\* C11: update_item sends PUT /items/{itemId} with the body {data: D},
\* where D has exactly the update fields the caller supplied, each with the
\* supplied value, assigneeId under the key userId; a field the caller left
\* out is not in D, and a call with only itemId sends {"data":{}}.
C11_UpdateItemBody ==
    \A c \in Slots :
        Sent(c) /\ calls[c].name = "update_item" =>
            LET req == calls[c].requests[1]
                given == calls[c].args
                supplied == DOMAIN given.rec \cap UpdateFields
                D == Get(SentJson(c), "data")
            IN /\ req.method = "PUT"
               /\ req.url = BASE_URL \o "/items/" \o ToStr(Arg(given, "itemId"))
               /\ req.body.kind = "json"
               /\ JSONParse(req.body.text).ok
               /\ KeysOf(SentJson(c)) = {"data"}
               /\ D.t = "object"
               /\ KeysOf(D) = {UpdateKey(a) : a \in supplied}
               /\ \A a \in supplied : Get(D, UpdateKey(a)) = given.rec[a]
               /\ supplied = {} => Text(req.body.text) = "{\"data\":{}}"

\* C11 witness: update_item was sent with an assignee and nothing else to
\* update, and its body is {"data":{"userId":"v_assigneeId"}}.
C11_Witness ==
    \E c \in Slots :
        /\ Sent(c) /\ calls[c].name = "update_item"
        /\ DOMAIN calls[c].args.rec = {"itemId", "assigneeId"}
        /\ calls[c].args.rec["assigneeId"] = Str("v_assigneeId")
        /\ Text(calls[c].requests[1].body.text) = "{\"data\":{\"userId\":\"v_assigneeId\"}}"

\* The upper-case form of a letter an argument name starts with.
Upper(ch) ==
    CASE ch = "a" -> "A" [] ch = "b" -> "B" [] ch = "c" -> "C" [] ch = "i" -> "I"
      [] ch = "m" -> "M" [] ch = "o" -> "O" [] ch = "p" -> "P" [] ch = "r" -> "R"
      [] ch = "s" -> "S" [] ch = "t" -> "T" [] ch = "w" -> "W" [] OTHER -> ch

\* An argument name with its first letter in upper case.
Capitalize(name) == Upper(SubSeq(name, 1, 1)) \o SubSeq(name, 2, Len(name))

\* The filters of list_items that are sent whenever they are supplied,
\* false and 0 included; the others are sent when their value is truthy.
SentWheneverSupplied == {"completed", "includeChildItems", "skip", "take"}

\* The filters the call supplies with a value the dispatcher does not drop.
KeptFilters(args) ==
    {a \in DOMAIN args.rec : a \in SentWheneverSupplied \/ Truthy(args.rec[a])}

RECURSIVE FilterParams(_, _, _)
\* The query parameters for the filters in `which`, in the schema's order:
\* the capitalized name with the value's text, one per element for an array.
FilterParams(props, args, which) ==
    IF props = <<>> THEN <<>>
    ELSE LET a == Head(props).name
             v == Arg(args, a)
             here == IF a \notin which THEN <<>>
                     ELSE IF v.t = "array"
                     THEN [i \in 1..Len(v.a) |-> Param(Capitalize(a), ToStr(v.a[i]))]
                     ELSE <<Param(Capitalize(a), ToStr(v))>>
         IN here \o FilterParams(Tail(props), args, which)

\* GET /items with the given query parameters.
ItemsUrl(params) ==
    BASE_URL \o "/items" \o (IF params = <<>> THEN "" ELSE "?" \o QueryString(params))

\* The request slot c sent is GET /items, without a body, whose query
\* string holds exactly the parameters of the filters in `which`.
ListItemsSends(c, which) ==
    LET req == calls[c].requests[1]
    IN /\ req.method = "GET"
       /\ req.body = NoBody
       /\ req.url = ItemsUrl(FilterParams(Descriptor("list_items").properties,
                                          calls[c].args, which))

ListedBoards ==
    << Obj(<<Member("id", Str("B0"))>>),
       Obj(<<Member("id", Str("v_boardId")), Member("title", Str("Sprint"))>>) >>

\* get_board on slot c was answered with the list of boards.
BoardsListed(c) ==
    /\ Answered(c)
    /\ calls[c].name = "get_board"
    /\ BackendSucceeded(c)
    /\ calls[c].answer.body = BoardsBody

\* C13: get_board lists the boards of the given workspace with one GET
\* /workspaces/{workspaceId}/boards; when the list holds a board whose id
\* equals boardId the result is that board object, unchanged and unflagged;
\* when it holds none the result is error-flagged and its message says the
\* board was not found.
C13_GetBoardFindsOrFails ==
    \A c \in Slots :
        BoardsListed(c) =>
            LET boardId == Arg(calls[c].args, "boardId")
                workspaceId == Arg(calls[c].args, "workspaceId")
                matches == {i \in 1..Len(ListedBoards) :
                               Get(ListedBoards[i], "id") = boardId}
            IN /\ Len(calls[c].requests) = 1
               /\ calls[c].requests[1].method = "GET"
               /\ calls[c].requests[1].url =
                      BASE_URL \o "/workspaces/" \o ToStr(workspaceId) \o "/boards"
               /\ matches # {} =>
                      \E i \in matches :
                          calls[c].response =
                              SuccessText(Text(JSONStringifyPretty(ListedBoards[i])))
               /\ matches = {} =>
                      calls[c].response =
                          ErrorText("Error: Board " \o ToStr(boardId)
                                    \o " not found in workspace")

\* C13 witness: get_board was answered with a list that lacks the board
\* asked for (the call left boardId out) and reports it as not found.
C13_Witness ==
    \E c \in Slots :
        /\ BoardsListed(c)
        /\ "boardId" \notin DOMAIN calls[c].args.rec
        /\ calls[c].response = ErrorText("Error: Board undefined not found in workspace")

\* C14: archive_item sends PUT /items/{itemId} with the body
\* {data: {archived: v}}, where v is true when the caller leaves archived
\* out and is the caller's value, true or false, when it is supplied.
C14_ArchiveDefaultsToTrue ==
    \A c \in Slots :
        Sent(c) /\ calls[c].name = "archive_item" =>
            LET req == calls[c].requests[1]
                given == calls[c].args
                v == IF "archived" \in DOMAIN given.rec
                     THEN given.rec["archived"] ELSE Bool(TRUE)
            IN /\ req.method = "PUT"
               /\ req.url = BASE_URL \o "/items/" \o ToStr(Arg(given, "itemId"))
               /\ req.body.kind = "json"
               /\ JSONParse(req.body.text).ok
               /\ SentJson(c) = Obj(<<Member("data", Obj(<<Member("archived", v)>>))>>)
               /\ "archived" \notin DOMAIN given.rec =>
                      Text(req.body.text) = "{\"data\":{\"archived\":true}}"

\* C14 witness: archive_item was sent with archived = false and the body
\* carries false.
C14_Witness ==
    \E c \in Slots :
        /\ Sent(c) /\ calls[c].name = "archive_item"
        /\ Arg(calls[c].args, "archived") = Bool(FALSE)
        /\ Text(calls[c].requests[1].body.text) = "{\"data\":{\"archived\":false}}"

\* An archive_item call that leaves archived out was sent with true.
C14_DefaultSent ==
    \E c \in Slots :
        /\ Sent(c) /\ calls[c].name = "archive_item"
        /\ "archived" \notin DOMAIN calls[c].args.rec
        /\ Text(calls[c].requests[1].body.text) = "{\"data\":{\"archived\":true}}"

\* s begins with p.
StartsWith(s, p) == Len(s) >= Len(p) /\ SubSeq(s, 1, Len(p)) = p

\* The first position at which the character ch occurs in s; 0 when there
\* is none.
IndexOf(s, ch) ==
    LET hits == {i \in 1..Len(s) : SubSeq(s, i, i) = ch}
    IN IF hits = {} THEN 0
       ELSE CHOOSE i \in hits : \A j \in hits : i <= j

RECURSIVE Split(_, _)
\* The pieces of s between the occurrences of ch.
Split(s, ch) ==
    LET i == IndexOf(s, ch)
    IN IF i = 0 THEN <<s>>
       ELSE <<SubSeq(s, 1, i - 1)>> \o Split(SubSeq(s, i + 1, Len(s)), ch)

\* The path of a URL under BASE_URL, without its query string, as its
\* segments.
PathSegments(url) ==
    LET rest == SubSeq(url, Len(BASE_URL) + 1, Len(url))
        path == Head(Split(rest, "?"))
    IN Tail(Split(path, "/"))

\* One entry of the outbound set: a method, a path template whose "{}"
\* segments stand for an identifier, and the kind of body it may carry.
Outbound(method, template, bodies) ==
    [method |-> method, template |-> template, bodies |-> bodies]

\* The enumerated outbound set.
OutboundSet ==
    { Outbound("GET", <<"workspaces">>, {"none"}),
      Outbound("POST", <<"workspaces">>, {"json"}),
      Outbound("GET", <<"workspaces", "{}">>, {"none"}),
      Outbound("PUT", <<"workspaces", "{}", "users", "{}">>, {"json"}),
      Outbound("GET", <<"workspaces", "{}", "boards">>, {"none"}),
      Outbound("POST", <<"boards">>, {"json"}),
      Outbound("GET", <<"boards", "{}", "rows">>, {"none"}),
      Outbound("GET", <<"boards", "{}", "statuses">>, {"none"}),
      Outbound("POST", <<"rows">>, {"json"}),
      Outbound("GET", <<"items">>, {"none"}),
      Outbound("POST", <<"items">>, {"json"}),
      Outbound("GET", <<"items", "{}">>, {"none"}),
      Outbound("PUT", <<"items", "{}">>, {"json"}),
      Outbound("DELETE", <<"items", "{}">>, {"none"}),
      Outbound("GET", <<"items", "{}", "attachments">>, {"none"}),
      Outbound("GET", <<"attachments", "{}">>, {"none"}),
      Outbound("PUT", <<"attachments", "{}">>, {"json"}),
      Outbound("DELETE", <<"attachments", "{}">>, {"none"}),
      Outbound("GET", <<"attachments", "{}", "content">>, {"none"}),
      Outbound("POST", <<"attachments">>, {"multipart"}),
      Outbound("GET", <<"users">>, {"none"}),
      Outbound("POST", <<"timelogs">>, {"json"}),
      Outbound("GET", <<"templates", "workspace">>, {"none"}),
      Outbound("GET", <<"templates", "board">>, {"none"}),
      Outbound("POST", <<"boards", "{}", "item-activities">>, {"json"}),
      Outbound("GET", <<"logs">>, {"none"}) }

\* The request is an instance of the entry.
Instance(request, entry) ==
    LET segs == PathSegments(request.url)
    IN /\ request.method = entry.method
       /\ request.body.kind \in entry.bodies
       /\ Len(segs) = Len(entry.template)
       /\ \A i \in 1..Len(segs) :
              entry.template[i] = "{}" \/ entry.template[i] = segs[i]

\* The filters get_time_logs and list_activities pass on.
TimeLogFilters ==
    {"workspaceId", "startDate", "endDate", "boardIds", "rowIds", "userIds", "tags"}
ActivityFilters == {"startDate", "endDate", "offset", "limit"}

\* C15: whatever the tool and its arguments, every request sent goes to
\* BASE_URL with a method and a path that instantiate an entry of the
\* enumerated outbound set; get_time_logs and list_activities, though they
\* read, are sent as POST (to /timelogs and /boards/{id}/item-activities)
\* with the supplied filters in a JSON body.
C15_RequestsInOutboundSet ==
    \A c \in Slots :
        \A i \in 1..Len(calls[c].requests) :
            LET req == calls[c].requests[i]
                given == calls[c].args
            IN /\ StartsWith(req.url, BASE_URL \o "/")
               /\ \E entry \in OutboundSet : Instance(req, entry)
               /\ calls[c].name = "get_time_logs" =>
                      /\ Instance(req, Outbound("POST", <<"timelogs">>, {"json"}))
                      /\ KeysOf(SentJson(c)) \subseteq TimeLogFilters
                      /\ \A a \in TimeLogFilters : Get(SentJson(c), a) = Arg(given, a)
               /\ calls[c].name = "list_activities" =>
                      /\ Instance(req, Outbound("POST", <<"boards", "{}", "item-activities">>,
                                                {"json"}))
                      /\ KeysOf(SentJson(c)) \subseteq ActivityFilters
                      /\ \A a \in ActivityFilters \cap DOMAIN given.rec :
                             Get(SentJson(c), a) = given.rec[a]

\* C15 witness: get_time_logs was sent as a POST to /timelogs whose JSON
\* body carries the workspace and the dates.
C15_Witness ==
    \E c \in Slots :
        /\ Sent(c) /\ calls[c].name = "get_time_logs"
        /\ calls[c].requests[1].method = "POST"
        /\ calls[c].requests[1].url = BASE_URL \o "/timelogs"
        /\ Get(SentJson(c), "workspaceId") = Str("v_workspaceId")
        /\ Get(SentJson(c), "startDate") = Str("v_startDate")

\* The request carries the header Content-Type: application/json.
JsonContentType(request) ==
    /\ "Content-Type" \in DOMAIN request.headers
    /\ request.headers["Content-Type"] = "application/json"

\* Slot c has sent a request through apiRequest.
SentByApiRequest(c) == Sent(c) /\ calls[c].via = "apiRequest"

\* The methods apiRequest accepts, and bodies it is tried with: none, a
\* falsy one, an empty object, an object with a member.
Methods == {"GET", "POST", "PUT", "DELETE"}
SampleBodies == {Undef, Null, Str(""), Obj(<<>>), Obj(<<Member("title", Str("t"))>>)}

\* apiRequest serializes a body only for POST and PUT and only when one is
\* given; for GET and DELETE the request has none.
BodyOnlyForPostAndPut ==
    \A method \in Methods, body \in SampleBodies :
        LET request == apiRequest("/items", method, body).request
        IN IF method \in {"POST", "PUT"} /\ Truthy(body)
           THEN request.body = JsonBody(JSONStringify(body))
           ELSE request.body = NoBody

\* C16 as stated: a request sent through apiRequest carries Content-Type:
\* application/json exactly when it carries a body; a body is serialized
\* only for POST and PUT, and GET and DELETE requests carry none.
C16_ContentTypeIffBody ==
    \A c \in Slots :
        SentByApiRequest(c) =>
            LET request == calls[c].requests[1]
            IN /\ JsonContentType(request) <=> request.body # NoBody
               /\ request.body # NoBody => request.method \in {"POST", "PUT"}
               /\ request.method \in {"GET", "DELETE"} => request.body = NoBody

\* C16 as amended: a request sent through apiRequest carries Content-Type:
\* application/json whether it carries a body or not; a body is serialized
\* only for POST and PUT, and GET and DELETE requests carry none.
C16_ContentTypeAlways ==
    /\ BodyOnlyForPostAndPut
    /\ \A c \in Slots :
          SentByApiRequest(c) =>
              LET request == calls[c].requests[1]
              IN /\ JsonContentType(request)
                 /\ request.body.kind \in {"none", "json"}
                 /\ request.body # NoBody => request.method \in {"POST", "PUT"}
                 /\ request.method \in {"GET", "DELETE"} => request.body = NoBody

\* C16 witness: delete_item was sent as a DELETE that has no body and
\* carries the JSON content type.
C16_Witness ==
    \E c \in Slots :
        /\ SentByApiRequest(c)
        /\ calls[c].name = "delete_item"
        /\ calls[c].requests[1].method = "DELETE"
        /\ calls[c].requests[1].body = NoBody
        /\ JsonContentType(calls[c].requests[1])

\* The backend answered the request of a catalog tool on slot c with a
\* success status and an empty body.
EmptySuccess(c) ==
    /\ Answered(c)
    /\ calls[c].name \in CatalogNames
    /\ BackendSucceeded(c)
    /\ calls[c].answer.body = EmptyBody

\* Both transport paths turn a success answer with an empty body into an
\* empty object.
EmptyBodyIsEmptyObject ==
    \A status \in {200, 204} :
        /\ apiResponse(Responded(status, EmptyBody)) = Return(Obj(<<>>))
        /\ uploadResponse(Responded(status, EmptyBody)) = Return(Obj(<<>>))

\* C17 as stated: when the backend answers with a success status and an
\* empty body, the transport, JSON path and multipart upload alike,
\* returns an empty object, so the call's result is unflagged and its text
\* is "{}".
C17_EmptyBodyGivesEmptyObjectText ==
    /\ EmptyBodyIsEmptyObject
    /\ \A c \in Slots :
          EmptySuccess(c) => calls[c].response = SuccessText("{}")

\* C17 as amended: the transport returns an empty object on both paths,
\* and the call's result is the unflagged "{}" for every tool but
\* get_board, which searches the empty object for its board and ends in an
\* error-flagged result.
C17_EmptyObjectButGetBoard ==
    /\ EmptyBodyIsEmptyObject
    /\ \A c \in Slots :
          EmptySuccess(c) =>
              calls[c].response =
                  IF calls[c].name = "get_board"
                  THEN ErrorText("Error: boards.find is not a function")
                  ELSE SuccessText("{}")

\* C17 witness: upload_attachment was answered 204 with an empty body and
\* returned "{}".
C17_Witness ==
    \E c \in Slots :
        /\ EmptySuccess(c)
        /\ calls[c].name = "upload_attachment"
        /\ calls[c].answer = Responded(204, EmptyBody)
        /\ calls[c].response = SuccessText("{}")

\* The requests an invocation sends when it runs alone.
AloneRequests(name, args) ==
    LET effect == handleToolCall(name, args)
    IN IF effect.kind = "fetch" THEN <<effect.request>> ELSE <<>>

\* The result an invocation returns when it runs alone and its request,
\* if it sends one, is answered with `answer`.
AloneResponse(name, args, answer) ==
    LET effect == handleToolCall(name, args)
    IN IF effect.kind = "fetch"
       THEN callToolResult(resumeToolCall(name, args, effect.via, answer))
       ELSE callToolResult(effect)

\* Slot c handles a tools/call request.
InFlight(c) == calls[c].method = "tools/call" /\ calls[c].pc \in {"awaiting", "done"}

\* Every invocation being handled has sent the requests, and every
\* answered one holds the result, that it has when run alone; two
\* invocations with the same name, arguments and answer agree.
SameAsAlone ==
    /\ \A c \in Slots :
          InFlight(c) =>
              /\ calls[c].requests = AloneRequests(calls[c].name, calls[c].args)
              /\ Answered(c) =>
                     calls[c].response =
                         AloneResponse(calls[c].name, calls[c].args, calls[c].answer)
    /\ \A c, d \in Slots :
          /\ Answered(c) /\ Answered(d)
          /\ calls[c].name = calls[d].name
          /\ calls[c].args = calls[d].args
          /\ calls[c].answer = calls[d].answer
          => /\ calls[c].requests = calls[d].requests
             /\ calls[c].response = calls[d].response
    /\ \A c \in Slots : Listed(c) => calls[c].response.tools = tools

\* A step of one invocation leaves every other invocation as it was, and
\* no step changes the resolved apiKey/baseUrl pair.
StepsAreLocal ==
    /\ API_KEY' = API_KEY
    /\ BASE_URL' = BASE_URL
    /\ \A c \in Slots :
          calls'[c] # calls[c] => \A d \in Slots \ {c} : calls'[d] = calls[d]

====
